---- MODULE Spec2Model ----
(***************************************************************************)
(* libgreat comms class registry and command dispatcher                    *)
(* (firmware/drivers/comms/comms_class.c).                                 *)
(*                                                                         *)
(* Pointers are integers, NULL is 0.  A struct comms_class object is one   *)
(* of the addresses in Classes; its fields are the functions               *)
(* class_number, command_verbs, command_handler and next.  The verb array  *)
(* a class points to is the sequence verbs[c] of its non-terminal entries; *)
(* the terminating entry (handler == NULL) is the end of the sequence.     *)
(*                                                                         *)
(* Every call is one action and leaves pc = "returned" with its outcome in *)
(* the result variables; Return hands control back to the caller.  A call  *)
(* that never returns leaves pc = "hang" (the list walk at line 93 on a    *)
(* cyclic list) or pc = "fault" (an access through a null command_verbs).  *)
(***************************************************************************)
EXTENDS Integers, Sequences, FiniteSets, TLC

\* ---------------------------------------------------------------- bounds
MaxVerbs == 2
MaxVerbNum == 2
MaxRegs == 3

\* ------------------------------------------------------------- constants
NULL == 0
EIO == 5
EINVAL == 22
EBADMSG == 77

\* Result of a list walk that never leaves the loop at line 93.
HANG == -1
\* A function pointer read from memory that holds no verb array.
WILD == 99

\* Addresses of the struct comms_class objects the firmware defines.
Classes == {1, 2}
\* Values the class authors give to class_number.
ClassNumbers == {5, 7}
\* Routing keys a backend may put in a transaction.
TransClassNumbers == ClassNumbers \cup {99}
\* Verb numbers an author declares: 0, or an explicit number.
VerbNumbers == {0, MaxVerbNum}
TransVerbs == 0..(IF MaxVerbs > MaxVerbNum THEN MaxVerbs ELSE MaxVerbNum)
\* Codes a handler may return.
HandlerCodes == {0, EIO}

\* The handler (function pointer) of entry i of the verb array of class c,
\* and the catch-all handler of class c: distinct non-null addresses.
VerbHandler(c, i) == 10 * c + i
ClassHandler(c) == 10 * c

\* The address of entry i of the verb array of class c.
VerbAddress(c, i) == 100 * c + i
\* The name strings of class c and of entry i of its verb array, and the
\* two label strings a caller passes to the name queries.
ClassName(c) == 1000 + c
VerbName(c, i) == 1000 + 100 * c + i
DefaultString == 2001
ClassHandlerString == 2002

VARIABLES
    class_head,       \* line 17
    next,             \* comms_class.next
    class_number,     \* comms_class.class_number
    name,             \* comms_class.name: NULL or the string's address
    command_verbs,    \* comms_class.command_verbs: NULL or the array's address
    verbs,            \* the verb arrays: verbs[c][i] = [verb_number, handler]
    command_handler,  \* comms_class.command_handler
    declared,         \* history: the verb arrays as the authors declared them
    regLog,           \* history: the non-null classes registered, in call order
    pc,               \* "idle", "returned", "fault" or "hang"
    op,               \* the call the caller last made
    trans,            \* the transaction of the last submit
    cls_arg,          \* the comms_class argument of the last register
    invoked,          \* the handlers the last submit invoked, in order
    handler_rc,       \* what the invoked handler returned
    okay,             \* comms_transaction_okay(trans) after the handler
    rc,               \* what the last submit returned
    ret               \* the pointer the last query returned

registry == <<class_head, next, class_number, name, command_verbs, verbs, command_handler>>
result == <<op, trans, cls_arg, invoked, handler_rc, okay, rc, ret>>
vars == <<registry, declared, regLog, pc, result>>

\* ------------------------------------------------------------ verb arrays
VerbEntry(c, i, n, nm) == [verb_number |-> n, name |-> nm, handler |-> VerbHandler(c, i)]

\* Names are optional: the author of the first class names the class and
\* its verbs, the authors of the others leave every name NULL.
AuthoredName(c, str) == IF c = 1 THEN str ELSE NULL

\* The verb arrays of at most MaxVerbs entries an author can declare for c.
VerbTables(c) ==
    UNION { { [i \in 1..k |-> VerbEntry(c, i, f[i], AuthoredName(c, VerbName(c, i)))] :
                f \in [1..k -> VerbNumbers] }
            : k \in 0..MaxVerbs }

\* What a read through a null verb pointer can find: no array at all, or
\* one entry with a wild handler.
GarbageTables ==
    { <<>> } \cup { << [verb_number |-> n, name |-> NULL, handler |-> WILD] >> : n \in VerbNumbers }

\* Variant: only the first entry is looked at.
requires_verb_assignment_first_only(tbl) ==
    Len(tbl) = 0 \/ tbl[1].verb_number = 0

\* lines 25-41
comms_class_requires_verb_assignment(tbl) ==
    \A i \in 1..Len(tbl) : tbl[i].verb_number = 0

\* Variant: next_verb_number starts at 1.
auto_assign_from_one(tbl) ==
    [i \in 1..Len(tbl) |-> [tbl[i] EXCEPT !.verb_number = i]]

\* Variant: next_verb_number is not reset to 0 on entry, so a later call
\* numbers from where earlier calls left off.
auto_assign_counter_carried_over(tbl) ==
    [i \in 1..Len(tbl) |-> [tbl[i] EXCEPT !.verb_number = Len(regLog) + i - 1]]

\* lines 44-54
comms_auto_assign_verb_numbers(tbl) ==
    [i \in 1..Len(tbl) |-> [tbl[i] EXCEPT !.verb_number = i - 1]]

\* lines 73-76: the verb array after registration
RegisteredVerbs(tbl) ==
    IF comms_class_requires_verb_assignment(tbl)
    THEN comms_auto_assign_verb_numbers(tbl)
    ELSE tbl

\* -------------------------------------------------------------- registry
RECURSIVE WalkClasses(_, _, _)
WalkClasses(cls, n, seen) ==
    IF cls = NULL THEN NULL
    ELSE IF class_number[cls] = n THEN cls
    ELSE IF cls \in seen THEN HANG
    ELSE WalkClasses(next[cls], n, seen \cup {cls})

\* Variant: the scan does not stop at the first match and returns the last.
RECURSIVE WalkClassesLast(_, _, _, _)
WalkClassesLast(cls, n, seen, found) ==
    IF cls = NULL THEN found
    ELSE IF cls \in seen THEN HANG
    ELSE WalkClassesLast(next[cls], n, seen \cup {cls},
                         IF class_number[cls] = n THEN cls ELSE found)

get_class_by_number_last_match(n) == WalkClassesLast(class_head, n, {}, NULL)

\* lines 88-100
comms_get_class_by_number(n) == WalkClasses(class_head, n, {})

TypeOK ==
    /\ class_head \in Classes \cup {NULL}
    /\ next \in [Classes -> Classes \cup {NULL}]
    /\ class_number \in [Classes -> ClassNumbers]
    /\ \A c \in Classes : command_verbs[c] \in {NULL, c}
    /\ \A c \in Classes : command_handler[c] \in {NULL, ClassHandler(c)}
    /\ pc \in {"idle", "returned", "fault", "hang"}

Init ==
    /\ class_head = NULL
    /\ next = [c \in Classes |-> NULL]
    /\ class_number \in [Classes -> ClassNumbers]
    /\ name = [c \in Classes |-> AuthoredName(c, ClassName(c))]
    /\ command_verbs \in [Classes -> Classes \cup {NULL}]
    /\ \A c \in Classes : command_verbs[c] \in {NULL, c}
    /\ verbs \in [Classes -> UNION { VerbTables(c) : c \in Classes }]
    /\ \A c \in Classes :
         verbs[c] \in (IF command_verbs[c] = NULL THEN { <<>> } ELSE VerbTables(c))
    /\ command_handler \in [Classes -> {NULL} \cup { ClassHandler(c) : c \in Classes }]
    /\ \A c \in Classes : command_handler[c] \in {NULL, ClassHandler(c)}
    /\ declared = verbs
    /\ regLog = <<>>
    /\ pc = "idle"
    /\ op = "none"
    /\ trans = [class_number |-> 0, verb |-> 0]
    /\ cls_arg = NULL
    /\ invoked = <<>>
    /\ handler_rc = 0
    /\ okay = TRUE
    /\ rc = 0
    /\ ret = NULL

\* ---------------------------------------------------------- registration
\* Variant: the guard at lines 68-71 is missing and line 80 stores the null
\* pointer in class_head.
RegisterNull_no_guard ==
    /\ pc = "idle"
    /\ pc' = "returned"
    /\ op' = "register"
    /\ cls_arg' = NULL
    /\ class_head' = NULL
    /\ UNCHANGED <<next, class_number, name, command_verbs, verbs, command_handler,
                   declared, regLog, trans, invoked, handler_rc, okay, rc, ret>>

\* lines 65-71: register(NULL) logs and returns.
RegisterNull ==
    /\ pc = "idle"
    /\ pc' = "returned"
    /\ op' = "register"
    /\ cls_arg' = NULL
    /\ UNCHANGED <<registry, declared, regLog, trans, invoked, handler_rc, okay, rc, ret>>

\* lines 78-80
LinkClass(c) ==
    /\ next' = [next EXCEPT ![c] = class_head]
    /\ class_head' = c

\* lines 65-81, command_verbs != NULL
RegisterClass(c) ==
    /\ pc = "idle"
    /\ Len(regLog) < MaxRegs
    /\ command_verbs[c] # NULL
    /\ verbs' = [verbs EXCEPT ![c] = RegisteredVerbs(verbs[c])]
    /\ LinkClass(c)
    /\ regLog' = Append(regLog, c)
    /\ pc' = "returned"
    /\ op' = "register"
    /\ cls_arg' = c
    /\ UNCHANGED <<class_number, name, command_verbs, command_handler, declared,
                   trans, invoked, handler_rc, okay, rc, ret>>

\* lines 65-81, command_verbs == NULL: the loops at lines 30 and 50 read
\* (and write) through the null pointer.  The access faults, or it finds
\* whatever lies at address 0 and registration goes on to link the class.
RegisterClassNullVerbs(c) ==
    /\ pc = "idle"
    /\ Len(regLog) < MaxRegs
    /\ command_verbs[c] = NULL
    /\ op' = "register"
    /\ cls_arg' = c
    /\ \/ /\ pc' = "fault"
          /\ UNCHANGED <<class_head, next, regLog>>
       \/ /\ LinkClass(c)
          /\ regLog' = Append(regLog, c)
          /\ pc' = "returned"
    /\ UNCHANGED <<class_number, name, command_verbs, verbs, command_handler, declared,
                   trans, invoked, handler_rc, okay, rc, ret>>

\* ---------------------------------------------------------------- submit
\* Variant: the break at line 161 is missing from the search.
FindVerb_last(tbl, v) ==
    IF \E i \in 1..Len(tbl) : tbl[i].verb_number = v
    THEN CHOOSE i \in 1..Len(tbl) :
            /\ tbl[i].verb_number = v
            /\ \A j \in (i + 1)..Len(tbl) : tbl[j].verb_number # v
    ELSE 0

\* lines 157-163: index of the first entry whose verb_number is v, 0 if none
FindVerb(tbl, v) ==
    IF \E i \in 1..Len(tbl) : tbl[i].verb_number = v
    THEN CHOOSE i \in 1..Len(tbl) :
            /\ tbl[i].verb_number = v
            /\ \A j \in 1..(i - 1) : tbl[j].verb_number # v
    ELSE 0

\* Variant: the class handler is tried before the verb array.
Dispatch_class_handler_first(tbl, v, ch) ==
    LET i == FindVerb(tbl, v) IN
    IF ch # NULL THEN << ch >>
    ELSE IF i # 0 THEN << tbl[i].handler >>
    ELSE << >>

\* lines 155-170: the handlers submit calls, in call order
Dispatch(tbl, v, ch) ==
    LET i == FindVerb(tbl, v) IN
    IF i # 0 THEN << tbl[i].handler >>
    ELSE IF ch # NULL THEN << ch >>
    ELSE << >>

\* Variant: the check at lines 173-177 is missing.
SubmitCode_no_unhandled_check(found_handler, hrc, ok) ==
    IF hrc = 0 /\ ~ok THEN EBADMSG ELSE hrc

\* Variant: the check at lines 181-183 is missing.
SubmitCode_no_override(found_handler, hrc, ok) ==
    IF ~found_handler THEN EINVAL ELSE hrc

\* Variant: line 181 tests the transaction only, not rc.
SubmitCode_override_always(found_handler, hrc, ok) ==
    IF ~found_handler THEN EINVAL
    ELSE IF ~ok THEN EBADMSG
    ELSE hrc

\* lines 172-185: the code submit returns once the scan is over
SubmitCode(found_handler, hrc, ok) ==
    IF ~found_handler THEN EINVAL
    ELSE IF hrc = 0 /\ ~ok THEN EBADMSG
    ELSE hrc

\* lines 128-143: the walk at line 93 never ends
SubmitHang(cn, v) ==
    /\ pc = "idle"
    /\ comms_get_class_by_number(cn) = HANG
    /\ pc' = "hang"
    /\ op' = "submit"
    /\ trans' = [class_number |-> cn, verb |-> v]
    /\ UNCHANGED <<registry, declared, regLog, cls_arg, invoked, handler_rc, okay, rc, ret>>

\* lines 128-153: unknown class, or class with neither verbs nor handler
SubmitReject(cn, v) ==
    /\ pc = "idle"
    /\ LET handling_class == comms_get_class_by_number(cn) IN
         /\ handling_class # HANG
         /\ \/ handling_class = NULL
            \/ /\ handling_class # NULL
               /\ command_verbs[handling_class] = NULL
               /\ command_handler[handling_class] = NULL
    /\ pc' = "returned"
    /\ op' = "submit"
    /\ trans' = [class_number |-> cn, verb |-> v]
    /\ rc' = EINVAL
    /\ UNCHANGED <<registry, declared, regLog, cls_arg, invoked, handler_rc, okay, ret>>

\* lines 128-186 past line 153.  tbl is the verb array the scan at line 157
\* reads: the class's own, or what lies behind a null command_verbs.  hrc
\* and ok are what the invoked handler returns and leaves in trans.
SubmitDispatch(cn, v, hrc, ok) ==
    /\ pc = "idle"
    /\ LET handling_class == comms_get_class_by_number(cn) IN
         /\ handling_class \notin {NULL, HANG}
         /\ command_verbs[handling_class] # NULL \/ command_handler[handling_class] # NULL
         /\ \E tbl \in (IF command_verbs[handling_class] # NULL
                        THEN { verbs[handling_class] } ELSE GarbageTables) :
              LET calls == Dispatch(tbl, v, command_handler[handling_class]) IN
              /\ invoked' = calls
              /\ IF calls = << >> THEN hrc = 0 /\ ok ELSE TRUE
              /\ rc' = SubmitCode(calls # << >>, hrc, ok)
    /\ handler_rc' = hrc
    /\ okay' = ok
    /\ pc' = "returned"
    /\ op' = "submit"
    /\ trans' = [class_number |-> cn, verb |-> v]
    /\ UNCHANGED <<registry, declared, regLog, cls_arg, ret>>

\* lines 157 and 160 with command_verbs == NULL: the read through the null
\* pointer, or the call through the pointer found there, faults.
SubmitFault(cn, v) ==
    /\ pc = "idle"
    /\ LET handling_class == comms_get_class_by_number(cn) IN
         /\ handling_class \notin {NULL, HANG}
         /\ command_verbs[handling_class] = NULL
         /\ command_handler[handling_class] # NULL
    /\ \E tbl \in GarbageTables :
         invoked' = (IF FindVerb(tbl, v) # 0 THEN << WILD >> ELSE << >>)
    /\ pc' = "fault"
    /\ op' = "submit"
    /\ trans' = [class_number |-> cn, verb |-> v]
    /\ UNCHANGED <<registry, declared, regLog, cls_arg, handler_rc, okay, rc, ret>>

\* --------------------------------------------------------------- queries
\* lines 107-116; HANG when the walk at line 93 never ends
comms_get_class_name(n, default_string) ==
    LET cls == comms_get_class_by_number(n) IN
    IF cls = HANG THEN HANG
    ELSE IF cls = NULL THEN default_string
    ELSE IF name[cls] = NULL THEN default_string
    ELSE name[cls]

\* lines 192-217: the address of the verb entry, NULL if there is none
comms_get_object_for_verb(n, v) ==
    LET handling_class == comms_get_class_by_number(n) IN
    IF handling_class = HANG THEN HANG
    ELSE IF handling_class = NULL THEN NULL
    ELSE IF command_verbs[handling_class] = NULL THEN NULL
    ELSE LET i == FindVerb(verbs[handling_class], v) IN
         IF i = 0 THEN NULL ELSE VerbAddress(handling_class, i)

\* The verb entry at an address VerbAddress gave.
VerbAt(addr) == verbs[addr \div 100][addr % 100]

\* lines 230-252 when a verb entry or the class is found
comms_get_handler_name(n, v, class_handler_string, default_string) ==
    LET verb == comms_get_object_for_verb(n, v)
        handling_class == comms_get_class_by_number(n) IN
    IF verb = HANG THEN HANG
    ELSE IF verb # NULL
         THEN (IF VerbAt(verb).name # NULL THEN VerbAt(verb).name ELSE default_string)
    ELSE IF command_handler[handling_class] # NULL THEN class_handler_string
    ELSE default_string

\* Variant: the loop at line 93 advances class_head itself, not a cursor.
Query_scan_moves_head(o, n, v, r) ==
    /\ pc = "idle"
    /\ op' = o
    /\ trans' = [class_number |-> n, verb |-> v]
    /\ IF r = HANG
       THEN pc' = "hang" /\ ret' = ret /\ class_head' = class_head
       ELSE pc' = "returned" /\ ret' = r /\ class_head' = comms_get_class_by_number(n)
    /\ UNCHANGED <<next, class_number, name, command_verbs, verbs, command_handler,
                   declared, regLog, cls_arg, invoked, handler_rc, okay, rc>>

\* A query with arguments (n, v) that yields r, or never returns.
Query(o, n, v, r) ==
    /\ pc = "idle"
    /\ op' = o
    /\ trans' = [class_number |-> n, verb |-> v]
    /\ IF r = HANG
       THEN pc' = "hang" /\ ret' = ret
       ELSE pc' = "returned" /\ ret' = r
    /\ UNCHANGED <<registry, declared, regLog, cls_arg, invoked, handler_rc, okay, rc>>

\* lines 88-100
GetClassByNumber(n) ==
    /\ n \in TransClassNumbers
    /\ Query("find", n, 0, comms_get_class_by_number(n))

\* lines 107-116
GetClassName(n) ==
    /\ n \in TransClassNumbers
    /\ Query("name", n, 0, comms_get_class_name(n, DefaultString))

\* lines 192-217
GetObjectForVerb(n, v) ==
    /\ n \in TransClassNumbers
    /\ Query("verb", n, v, comms_get_object_for_verb(n, v))

\* lines 230-252, except the case of GetHandlerNameNoClass
GetHandlerName(n, v) ==
    /\ comms_get_class_by_number(n) # NULL
    /\ Query("handler_name", n, v,
             comms_get_handler_name(n, v, ClassHandlerString, DefaultString))

\* lines 230-252 when no class has the number: verb and handling_class are
\* both NULL and line 246 reads handling_class->command_handler.  The read
\* faults, or finds a zero or a non-zero word behind the null pointer.
GetHandlerNameNoClass(n, v) ==
    /\ pc = "idle"
    /\ comms_get_class_by_number(n) = NULL
    /\ op' = "handler_name"
    /\ trans' = [class_number |-> n, verb |-> v]
    /\ \/ pc' = "fault" /\ ret' = ret
       \/ pc' = "returned" /\ ret' \in {ClassHandlerString, DefaultString}
    /\ UNCHANGED <<registry, declared, regLog, cls_arg, invoked, handler_rc, okay, rc>>

\* The caller takes the result; the next call starts from a clean slate.
Return ==
    /\ pc = "returned"
    /\ pc' = "idle"
    /\ op' = "none"
    /\ trans' = [class_number |-> 0, verb |-> 0]
    /\ cls_arg' = NULL
    /\ invoked' = <<>>
    /\ handler_rc' = 0
    /\ okay' = TRUE
    /\ rc' = 0
    /\ ret' = NULL
    /\ UNCHANGED <<registry, declared, regLog>>

Next ==
    \/ RegisterNull
    \/ \E c \in Classes : RegisterClass(c)
    \/ \E c \in Classes : RegisterClassNullVerbs(c)
    \/ \E cn \in TransClassNumbers, v \in TransVerbs : SubmitHang(cn, v)
    \/ \E cn \in TransClassNumbers, v \in TransVerbs : SubmitReject(cn, v)
    \/ \E cn \in TransClassNumbers, v \in TransVerbs, hrc \in HandlerCodes, ok \in BOOLEAN :
          SubmitDispatch(cn, v, hrc, ok)
    \/ \E cn \in TransClassNumbers, v \in TransVerbs : SubmitFault(cn, v)
    \/ \E n \in TransClassNumbers : GetClassByNumber(n)
    \/ \E n \in TransClassNumbers : GetClassName(n)
    \/ \E n \in TransClassNumbers, v \in TransVerbs : GetObjectForVerb(n, v)
    \/ \E n \in TransClassNumbers, v \in TransVerbs : GetHandlerName(n, v)
    \/ \E n \in TransClassNumbers, v \in TransVerbs : GetHandlerNameNoClass(n, v)
    \/ Return

Spec == Init /\ [][Next]_vars

\* ================================================================ claims
\* The class the last submit was addressed to, as line 135 resolves it.
HandlingClass == comms_get_class_by_number(trans.class_number)
ClassFound == HandlingClass \notin {NULL, HANG}
\* The entries of the handling class's verb array (none if it has no array).
HandlingVerbs == verbs[HandlingClass]
VerbMatches == \E i \in 1..Len(HandlingVerbs) : HandlingVerbs[i].verb_number = trans.verb
SubmitReturned == op = "submit" /\ pc = "returned"
\* What lines 179-185 make of the handler's code.
Surfaced == IF handler_rc = 0 /\ ~okay THEN EBADMSG ELSE handler_rc
\* The classes register() has linked.
Registered == { regLog[i] : i \in 1..Len(regLog) }
DistinctRegistrations == \A i, j \in 1..Len(regLog) : i # j => regLog[i] # regLog[j]

\* C1: a submit whose class is in the registry and whose verb array has an
\* entry with the transaction's verb returns having invoked the handler of
\* such an entry and nothing else; in particular not the class handler.
C1_DispatchPrecedence ==
    (op = "submit" /\ ClassFound /\ command_verbs[HandlingClass] # NULL /\ VerbMatches)
    => /\ pc = "returned"
       /\ \E i \in 1..Len(HandlingVerbs) :
            /\ HandlingVerbs[i].verb_number = trans.verb
            /\ invoked = << HandlingVerbs[i].handler >>
       /\ \A k \in 1..Len(invoked) : invoked[k] # command_handler[HandlingClass]

C1_Witness ==
    /\ SubmitReturned /\ ClassFound
    /\ command_handler[HandlingClass] # NULL
    /\ VerbMatches
    /\ invoked = << VerbHandler(HandlingClass, 1) >>

\* C2 (as stated): a submit to a class in the registry that has a class
\* handler and no verb entry with the transaction's verb returns having
\* invoked the class handler exactly once, and returns that handler's code
\* (EBADMSG in place of 0 when the transaction is not okay).
C2_Fallback ==
    (op = "submit" /\ ClassFound /\ ~VerbMatches /\ command_handler[HandlingClass] # NULL)
    => /\ pc = "returned"
       /\ invoked = << command_handler[HandlingClass] >>
       /\ rc = Surfaced

\* C3: a submit to a class in the registry that has no class handler and no
\* verb entry with the transaction's verb returns EINVAL and invokes nothing.
C3_UnhandledVerb ==
    (op = "submit" /\ ClassFound /\ ~VerbMatches /\ command_handler[HandlingClass] = NULL)
    => /\ pc = "returned"
       /\ rc = EINVAL
       /\ invoked = << >>

C3_Witness ==
    /\ SubmitReturned /\ ClassFound
    /\ Len(HandlingVerbs) > 0 /\ ~VerbMatches
    /\ command_handler[HandlingClass] = NULL
    /\ rc = EINVAL

\* C4 (as stated): a submit whose class number is the number of no class
\* ever registered returns EINVAL and invokes nothing.
C4_UnknownClass ==
    (op = "submit" /\ \A c \in Registered : class_number[c] # trans.class_number)
    => /\ pc = "returned"
       /\ rc = EINVAL
       /\ invoked = << >>

\* C5: when the invoked handler returned 0 and left the transaction not
\* okay, submit returns EBADMSG.
C5_SuccessOverride ==
    (SubmitReturned /\ invoked # << >> /\ handler_rc = 0 /\ ~okay) => rc = EBADMSG

C5_Witness ==
    /\ SubmitReturned /\ invoked # << >> /\ handler_rc = 0 /\ ~okay
    /\ rc = EBADMSG

\* C6: when the invoked handler returned a non-zero code, submit returns
\* that code whether or not the transaction is okay.
C6_HandlerErrorVerbatim ==
    (SubmitReturned /\ invoked # << >> /\ handler_rc # 0) => rc = handler_rc

C6_Witness ==
    /\ SubmitReturned /\ invoked # << >> /\ handler_rc = EIO /\ ~okay
    /\ rc = EIO

\* C7: a registered class whose verb array was declared with verb_number 0
\* in every entry (k entries, k >= 0) has verb_number i at array index i,
\* for the same handlers in the same order.
C7_AutoAssignment ==
    \A c \in Registered :
        (command_verbs[c] # NULL /\ \A i \in 1..Len(declared[c]) : declared[c][i].verb_number = 0)
        => /\ Len(verbs[c]) = Len(declared[c])
           /\ \A i \in 1..Len(verbs[c]) :
                /\ verbs[c][i].verb_number = i - 1
                /\ verbs[c][i].handler = declared[c][i].handler

C7_Witness ==
    \E c \in Registered :
        /\ Len(declared[c]) = MaxVerbs
        /\ \A i \in 1..Len(declared[c]) : declared[c][i].verb_number = 0
        /\ verbs[c][MaxVerbs].verb_number = MaxVerbs - 1
        /\ op = "register" /\ cls_arg = c

\* C8: a registered class whose verb array was declared with a non-zero
\* verb_number in some entry has every entry as declared.
C8_ExplicitNumbering ==
    \A c \in Registered :
        (\E i \in 1..Len(declared[c]) : declared[c][i].verb_number # 0)
        => verbs[c] = declared[c]

C8_Witness ==
    \E c \in Registered :
        /\ Len(declared[c]) >= 2
        /\ declared[c][1].verb_number = 0
        /\ declared[c][2].verb_number # 0
        /\ verbs[c] = declared[c]
        /\ op = "register" /\ cls_arg = c

\* C9: while every register call was for a different class object, the
\* lookup of n yields the class registered last among those numbered n, and
\* NULL exactly when no registered class is numbered n.
LastRegistered(n) ==
    LET idx == { i \in 1..Len(regLog) : class_number[regLog[i]] = n } IN
    IF idx = {} THEN NULL
    ELSE regLog[CHOOSE i \in idx : \A j \in idx : j <= i]

C9_LookupCorrectness ==
    DistinctRegistrations
    => \A n \in TransClassNumbers : comms_get_class_by_number(n) = LastRegistered(n)

C9_Witness ==
    /\ DistinctRegistrations
    /\ Len(regLog) = 2
    /\ class_number[regLog[1]] = class_number[regLog[2]]
    /\ comms_get_class_by_number(class_number[regLog[1]]) = regLog[2]
    /\ \E n \in ClassNumbers : comms_get_class_by_number(n) = NULL

\* C10 (as stated): registering a class with no verb array and a class
\* handler returns and makes it the class found for its number; a submit to
\* a class with no verb array and a class handler returns having invoked the
\* class handler only, with that handler's code.
C10_NullVerbsClassHandler ==
    /\ (op = "register" /\ cls_arg # NULL
          /\ command_verbs[cls_arg] = NULL /\ command_handler[cls_arg] # NULL)
       => /\ pc = "returned"
          /\ comms_get_class_by_number(class_number[cls_arg]) = cls_arg
    /\ (op = "submit" /\ ClassFound
          /\ command_verbs[HandlingClass] = NULL /\ command_handler[HandlingClass] # NULL)
       => /\ pc = "returned"
          /\ invoked = << command_handler[HandlingClass] >>
          /\ rc = Surfaced

\* C11 (as stated): registering a class with neither a verb array nor a
\* class handler returns, and a submit to such a class returns EINVAL
\* without invoking a handler.
C11_MisconfiguredClass ==
    /\ (op = "register" /\ cls_arg # NULL
          /\ command_verbs[cls_arg] = NULL /\ command_handler[cls_arg] = NULL)
       => pc = "returned"
    /\ (op = "submit" /\ ClassFound
          /\ command_verbs[HandlingClass] = NULL /\ command_handler[HandlingClass] = NULL)
       => /\ pc = "returned"
          /\ rc = EINVAL
          /\ invoked = << >>

\* C12 (as stated): the handler-name query returns, with the verb's name if
\* a verb entry is found and named, the default label if it is found and
\* anonymous, the class-handler label if none is found and the class has a
\* class handler, and the default label otherwise (no class included).
ExpectedHandlerName ==
    IF ClassFound /\ command_verbs[HandlingClass] # NULL /\ VerbMatches
    THEN LET e == HandlingVerbs[FindVerb(HandlingVerbs, trans.verb)] IN
         IF e.name # NULL THEN e.name ELSE DefaultString
    ELSE IF ClassFound /\ command_handler[HandlingClass] # NULL THEN ClassHandlerString
    ELSE DefaultString

C12_HandlerDisplayName ==
    op = "handler_name" => (pc = "returned" /\ ret = ExpectedHandlerName)

\* C13: a register(NULL) call returns and leaves the list head, every
\* class's fields and verb numbers, and the set of registered classes as
\* they were.
C13_NullRegistrationNoOp ==
    [][(pc = "idle" /\ op' = "register" /\ cls_arg' = NULL)
        => (pc' = "returned" /\ registry' = registry /\ regLog' = regLog)]_vars

C13_Witness ==
    /\ op = "register" /\ cls_arg = NULL /\ pc = "returned"
    /\ class_head # NULL
    /\ Len(regLog) >= 2

\* C14 (as stated): the verb-descriptor query returns; it yields the entry
\* whose handler a submit with the same pair invokes as verb handler when
\* there is one, NULL when the class is absent, has no verb array or has no
\* entry with the number; it invokes no handler.
C14_VerbDescriptorAgreesWithDispatch ==
    op = "verb"
    => /\ pc = "returned"
       /\ invoked = << >>
       /\ IF ClassFound /\ command_verbs[HandlingClass] # NULL /\ VerbMatches
          THEN /\ ret # NULL
               /\ << VerbAt(ret).handler >> = Dispatch(HandlingVerbs, trans.verb, NULL)
          ELSE ret = NULL

\* C15 (as stated): the list reachable from class_head is finite, so no
\* lookup walks forever, and neither a lookup nor a submit fails to return
\* because of the walk.
C15_RegistryTerminates ==
    /\ \A n \in TransClassNumbers : comms_get_class_by_number(n) # HANG
    /\ op \in {"find", "submit"} => pc # "hang"

\* C16: no step changes the verb_number of an entry of a class that has
\* been registered, whatever the call: registering another class or the
\* same class again, a submit, or a query.
C16_RenumberingOneTime ==
    [][\A c \in Registered :
          /\ Len(verbs'[c]) = Len(verbs[c])
          /\ \A i \in 1..Len(verbs[c]) : verbs'[c][i].verb_number = verbs[c][i].verb_number]_vars

C16_Witness ==
    \E c \in Registered :
        /\ \E i, j \in 1..Len(regLog) : i < j /\ regLog[i] = c /\ regLog[j] = c
        /\ Len(declared[c]) = MaxVerbs
        /\ \A i \in 1..Len(declared[c]) : declared[c][i].verb_number = 0
        /\ op = "register" /\ cls_arg = c /\ pc = "returned"

\* C17: a submit or a query, whether it returns a result, returns an error,
\* faults or hangs, leaves class_head and every class's next, class_number,
\* name, verb array and class handler as they were.
C17_DispatchReadOnly ==
    [][(pc = "idle" /\ op' \in {"submit", "find", "name", "verb", "handler_name"})
        => registry' = registry]_vars

C17_Witness ==
    /\ op = "verb" /\ pc = "returned" /\ ret # NULL
    /\ class_head # NULL /\ next[class_head] # NULL
    /\ HandlingClass # class_head

\* C18: a submit invokes at most one handler, and when the handling class's
\* verb array has entries with the transaction's verb, the one handler
\* invoked is that of the first of them in array order.
C18_AtMostOneHandlerFirstMatch ==
    /\ Len(invoked) <= 1
    /\ (op = "submit" /\ ClassFound /\ command_verbs[HandlingClass] # NULL /\ VerbMatches)
       => \E i \in 1..Len(HandlingVerbs) :
            /\ HandlingVerbs[i].verb_number = trans.verb
            /\ \A j \in 1..(i - 1) : HandlingVerbs[j].verb_number # trans.verb
            /\ invoked = << VerbHandler(HandlingClass, i) >>

C18_Witness ==
    /\ SubmitReturned /\ ClassFound
    /\ Len(HandlingVerbs) >= 2
    /\ HandlingVerbs[1].verb_number = trans.verb
    /\ HandlingVerbs[2].verb_number = trans.verb
    /\ command_handler[HandlingClass] # NULL
    /\ invoked = << VerbHandler(HandlingClass, 1) >>

\* C19 (as stated): for every class a register call has linked, the lookup
\* of its class number yields a class.
C19_AppendOnly ==
    \A c \in Registered : comms_get_class_by_number(class_number[c]) \notin {NULL, HANG}

\* C20: a submit that returns 0 has invoked exactly one handler, which
\* returned 0 and left the transaction okay; a submit that returns anything
\* else returns EINVAL, EBADMSG or the non-zero code its handler returned.
C20_SuccessIsEarned ==
    SubmitReturned
    => IF rc = 0
       THEN Len(invoked) = 1 /\ handler_rc = 0 /\ okay
       ELSE \/ rc = EINVAL
            \/ rc = EBADMSG
            \/ (invoked # << >> /\ handler_rc # 0 /\ rc = handler_rc)

C20_Witness ==
    /\ SubmitReturned /\ rc = 0
    /\ Len(invoked) = 1 /\ handler_rc = 0 /\ okay

====
